---- MODULE Spec2Model ----
(***************************************************************************)
(* A model of manifest.py: the Teamplay manifest (an HL7 FHIR Task), its   *)
(* file attachment lists, its HL7 encoding and decoding, the archive name, *)
(* package_manifest and the command line tool.                             *)
(*                                                                         *)
(* Python strings are sequences of one-character strings, so that slicing, *)
(* prefixes, suffixes, joins and the filename cleaning are computed.       *)
(* Python values that come out of json.loads are tagged records:           *)
(*   [t |-> "str", s], [t |-> "int", n], [t |-> "none"],                    *)
(*   [t |-> "dict", m] (m a function on TLA+ strings), [t |-> "list", a].   *)
(***************************************************************************)
EXTENDS Integers, Sequences, FiniteSets, TLC

VARIABLES
    manifests,  \* the Manifest instances, in order of construction
    lists,      \* the live FileAttachmentList objects: id -> _files
    fs,         \* the regular files of the working directory: name -> content
    now,        \* the wall clock, in seconds
    calls,      \* the number of calls the program has made
    out,        \* the outcome of the last call: what it returned, raised, printed
    cli         \* the command line tool's run: arguments, position, exit code

vars == <<manifests, lists, fs, now, calls, out, cli>>

----------------------------------------------------------------------------
(* Bounds of the model *)

MaxManifests == 2
MaxClock == 1
MaxCalls == 4

----------------------------------------------------------------------------
(* Python values *)

PyStr(s) == [t |-> "str", s |-> s]
PyInt(n) == [t |-> "int", n |-> n]
PyNone == [t |-> "none"]
PyDict(m) == [t |-> "dict", m |-> m]
PyList(a) == [t |-> "list", a |-> a]



\* F of the value of v: v is evaluated once, whatever the number of its uses.
With(v, F(_)) == CHOOSE y \in {F(x) : x \in {v}} : TRUE

\* The outcome of evaluating an expression: a value, or an exception.
Ret(v) == [exc |-> "none", v |-> v]
Raise(e) == [exc |-> e]

\* Subscript keys: d["name"] or d[0].
Key(name) == [kind |-> "key", name |-> name]
Idx(i) == [kind |-> "idx", i |-> i]

\* d[k], as Python evaluates it on the values json.loads produces.
Subscript(d, k) ==
    CASE d.t = "dict" ->
            IF k.kind = "key" /\ k.name \in DOMAIN d.m
            THEN Ret(d.m[k.name]) ELSE Raise("KeyError")
      [] d.t = "list" ->
            IF k.kind # "idx" THEN Raise("TypeError")
            ELSE IF k.i + 1 \in DOMAIN d.a THEN Ret(d.a[k.i + 1])
            ELSE Raise("IndexError")
      [] d.t = "str" ->
            IF k.kind # "idx" THEN Raise("TypeError")
            ELSE IF k.i + 1 \in DOMAIN d.s THEN Ret(PyStr(<<d.s[k.i + 1]>>))
            ELSE Raise("IndexError")
      [] OTHER -> Raise("TypeError")

RECURSIVE try_nested_key(_, _, _)
try_nested_key(d, key_list, fallback) ==
    IF key_list = <<>> THEN Ret(d)
    ELSE With(Subscript(d, Head(key_list)), LAMBDA r :
            IF r.exc \in {"KeyError", "TypeError"} THEN Ret(fallback)
            ELSE IF r.exc # "none" THEN r
            ELSE try_nested_key(r.v, Tail(key_list), fallback))

----------------------------------------------------------------------------
(* Strings *)

EmptyStr == <<>>

StartsWith(s, p) == Len(s) >= Len(p) /\ SubSeq(s, 1, Len(p)) = p
EndsWith(s, p) == Len(s) >= Len(p) /\ SubSeq(s, Len(s) - Len(p) + 1, Len(s)) = p
RemovePrefix(s, p) == IF StartsWith(s, p) THEN SubSeq(s, Len(p) + 1, Len(s)) ELSE s

RECURSIVE Join(_, _)
Join(sep, parts) ==
    IF parts = <<>> THEN <<>>
    ELSE IF Len(parts) = 1 THEN parts[1]
    ELSE parts[1] \o sep \o Join(sep, Tail(parts))

\* The characters outside ASCII that the model's strings use.
NonAscii == {"é", "ø"}

\* [-_()a-zA-Z0-9]
FilenameChars ==
    {"-", "_", "(", ")",
     "a", "b", "c", "d", "e", "f", "g", "h", "i", "j", "k", "l", "m",
     "n", "o", "p", "q", "r", "s", "t", "u", "v", "w", "x", "y", "z",
     "A", "B", "C", "D", "E", "F", "G", "H", "I", "J", "K", "L", "M",
     "N", "O", "P", "Q", "R", "S", "T", "U", "V", "W", "X", "Y", "Z",
     "0", "1", "2", "3", "4", "5", "6", "7", "8", "9"}

AsciiReplace(s) == [i \in 1..Len(s) |-> IF s[i] \in NonAscii THEN "?" ELSE s[i]]
ReplaceChar(s, a, b) == [i \in 1..Len(s) |-> IF s[i] = a THEN b ELSE s[i]]
SubNotFilenameChars(s) == [i \in 1..Len(s) |-> IF s[i] \in FilenameChars THEN s[i] ELSE "_"]

\* clean_for_filename, were the regular expression left out.
clean_for_filename_ascii_only(s) == ReplaceChar(AsciiReplace(s), "?", "_")

clean_for_filename(s) == SubNotFilenameChars(ReplaceChar(AsciiReplace(s), "?", "_"))

DecimalDigits == <<"0", "1", "2", "3", "4", "5", "6", "7", "8", "9">>

RECURSIVE Decimal(_)
Decimal(n) ==
    IF n < 10 THEN <<DecimalDigits[n + 1]>>
    ELSE Decimal(n \div 10) \o <<DecimalDigits[(n % 10) + 1]>>

----------------------------------------------------------------------------
(* String literals of the source *)

REQUESTED == <<"r", "e", "q", "u", "e", "s", "t", "e", "d">>
COMPLETED == <<"c", "o", "m", "p", "l", "e", "t", "e", "d">>
FilePrefix == <<"f", "i", "l", "e", ":", "/", "/">>
TASK == <<"T", "a", "s", "k">>
GENERATED == <<"g", "e", "n", "e", "r", "a", "t", "e", "d">>
ORDER == <<"o", "r", "d", "e", "r">>
DivOpen == <<"<", "d", "i", "v", " ", "x", "m", "l", "n", "s", "=", "'", "h", "t", "t", "p", ":", "/", "/", "w", "w", "w", ".", "w", "3", ".", "o", "r", "g", "/", "1", "9", "9", "9", "/", "x", "h", "t", "m", "l", "'", ">">>
DivClose == <<"<", "/", "d", "i", "v", ">">>
OUTPUT == <<"O", "u", "t", "p", "u", "t">>
INPUT == <<"I", "n", "p", "u", "t">>
TaskFor == <<" ", "t", "a", "s", "k", " ", "f", "o", "r", " ">>
Created == <<",", " ", "c", "r", "e", "a", "t", "e", "d", " ">>
StageRES == <<"R", "E", "S">>
StageNEW == <<"N", "E", "W">>
ZIP == <<"z", "i", "p">>
DotZip == <<".", "z", "i", "p">>
ManifestJson == <<"M", "A", "N", "I", "F", "E", "S", "T", ".", "j", "s", "o", "n">>

----------------------------------------------------------------------------
(* FileAttachmentList *)

AttachmentKeys == {"Filename", "Description", "MIME"}

\* The result of a call on a list: its _files afterwards, and what it raised.
Files(files, exc) == [files |-> files, exc |-> exc]

RECURSIVE insert(_, _)
RECURSIVE insert_each(_, _)

\* FileAttachmentList.insert: f is one dict, or an iterable of such.
insert(files, f) ==
    CASE f.t = "dict" ->
            IF AttachmentKeys \subseteq DOMAIN f.m
            THEN Files(Append(files, [Filename |-> f.m["Filename"],
                                      Description |-> f.m["Description"],
                                      MIME |-> f.m["MIME"]]), "none")
            ELSE Files(files, "KeyError")
      [] f.t = "list" -> insert_each(files, f.a)
      [] f.t = "str" ->
            \* the characters of a string are strings: the recursion never ends
            IF f.s = <<>> THEN Files(files, "none") ELSE Files(files, "RecursionError")
      [] OTHER -> Files(files, "TypeError")

\* insert's loop, were it to take the items last to first.
insert_each_backwards(files, items) ==
    IF items = <<>> THEN Files(files, "none")
    ELSE With(insert(files, items[Len(items)]), LAMBDA r :
            IF r.exc # "none" THEN r
            ELSE insert_each(r.files, SubSeq(items, 1, Len(items) - 1)))

\* for i in f: self.insert(i)
insert_each(files, items) ==
    IF items = <<>> THEN Files(files, "none")
    ELSE With(insert(files, Head(items)), LAMBDA r :
            IF r.exc # "none" THEN r ELSE insert_each(r.files, Tail(items)))

\* FileAttachmentList(files)
FileAttachmentList(files) ==
    IF files.t = "none" THEN Files(<<>>, "none") ELSE insert(<<>>, files)

\* FileAttachmentList.files
FileNames(files) == [i \in 1..Len(files) |-> files[i].Filename]

\* FileAttachmentList.HL7_table
HL7_table(files) ==
    PyList([i \in 1..Len(files) |->
        PyDict(("type" :> PyDict("text" :> files[i].Description))
            @@ ("valueAttachment" :> PyDict(
                    ("contentType" :> files[i].MIME)
                 @@ ("url" :> PyStr(FilePrefix \o files[i].Filename.s)))))])

----------------------------------------------------------------------------
(* The heap of FileAttachmentList objects *)

\* Manifest.inputFiles and Manifest.outputFiles, the class attributes: the two
\* lists made when the class body runs.
ClassInputFiles == 1
ClassOutputFiles == 2

\* The identity of a newly made object: one no live object has.
NewId(heap) ==
    CHOOSE i \in 1..(Cardinality(DOMAIN heap) + 1) :
        /\ i \notin DOMAIN heap
        /\ \A j \in 1..(i - 1) : j \in DOMAIN heap

Alloc(heap, files) == heap @@ (NewId(heap) :> files)

\* A list lives as long as the class or a manifest refers to it.
Live(ms) ==
    {ClassInputFiles, ClassOutputFiles}
        \cup {ms[i].inputFiles : i \in DOMAIN ms}
        \cup {ms[i].outputFiles : i \in DOMAIN ms}

Collect(heap, ms) == [i \in (DOMAIN heap) \cap Live(ms) |-> heap[i]]

----------------------------------------------------------------------------
(* Manifest *)

IsStr(v, s) == v.t = "str" /\ v.s = s

\* strftime("%Y-%m-%dT%H:%M:%S%z"): the calendar fields are the count of seconds
\* here, the offset is that of the local zone.
StrftimeISO(t) == <<"T">> \o Decimal(t) \o <<"+", "0", "1", "0", "0">>

\* strftime("%s")
StrftimeEpoch(t) == Decimal(t)

\* Manifest.__HL7_timestamp__
HL7_timestamp(t) ==
    LET ts == StrftimeISO(t)
    IN  SubSeq(ts, 1, Len(ts) - 2) \o <<":">> \o SubSeq(ts, Len(ts) - 1, Len(ts))

\* cls(): the class attributes show through, __init__ sets authoredOn.
NewInstance(t) ==
    [status |-> PyStr(REQUESTED),
     authoredOn |-> PyStr(HL7_timestamp(t)),
     lastModified |-> PyStr(EmptyStr),
     patientID |-> PyStr(EmptyStr),
     zipfile |-> PyStr(EmptyStr),
     encounter |-> PyStr(EmptyStr),
     performer |-> PyStr(EmptyStr),
     inputFiles |-> ClassInputFiles,
     outputFiles |-> ClassOutputFiles]

\* The result of a constructor or method: what it raised, the instance and the
\* heap afterwards.
Made(exc, self, heap) == [exc |-> exc, self |-> self, heap |-> heap]

\* d[k1][k2]..., raising what the first failing subscript raises.
RECURSIVE GetPath(_, _)
GetPath(d, keys) ==
    IF keys = <<>> THEN Ret(d)
    ELSE With(Subscript(d, Head(keys)), LAMBDA r :
            IF r.exc # "none" THEN r ELSE GetPath(r.v, Tail(keys)))

\* dict(Filename=a["valueAttachment"]["url"].removeprefix("file://"),
\*      MIME=a["valueAttachment"]["contentType"], Description=a["type"]["text"])
AttachmentFromParsed(a) ==
    With(GetPath(a, <<Key("valueAttachment"), Key("url")>>), LAMBDA url :
    With(GetPath(a, <<Key("valueAttachment"), Key("contentType")>>), LAMBDA mime :
    With(GetPath(a, <<Key("type"), Key("text")>>), LAMBDA text :
        IF url.exc # "none" THEN url
        ELSE IF url.v.t # "str" THEN Raise("AttributeError")
        ELSE IF mime.exc # "none" THEN mime
        ELSE IF text.exc # "none" THEN text
        ELSE Ret(PyDict(("Filename" :> PyStr(RemovePrefix(url.v.s, FilePrefix)))
                     @@ ("MIME" :> mime.v)
                     @@ ("Description" :> text.v))))))

\* for a in v: the elements of a list, the characters of a string. (Iterating
\* a dict yields its keys; no document of the model has a dict there.)
Iterate(v) ==
    CASE v.t = "list" -> Ret(v.a)
      [] v.t = "str" -> Ret([i \in 1..Len(v.s) |-> PyStr(<<v.s[i]>>)])
      [] v.t \in {"none", "int"} -> Raise("TypeError")

RECURSIVE AttachmentsEach(_)
AttachmentsEach(items) ==
    IF items = <<>> THEN Ret(<<>>)
    ELSE With(AttachmentFromParsed(Head(items)), LAMBDA a :
            IF a.exc # "none" THEN a
            ELSE With(AttachmentsEach(Tail(items)), LAMBDA rest :
                    IF rest.exc # "none" THEN rest ELSE Ret(<<a.v>> \o rest.v)))

\* [dict(...) for a in v]
AttachmentsFromParsed(v) ==
    With(Iterate(v), LAMBDA it :
        IF it.exc # "none" THEN it
        ELSE With(AttachmentsEach(it.v), LAMBDA each :
                IF each.exc # "none" THEN each ELSE Ret(PyList(each.v))))

\* FileAttachmentList([dict(...) for a in parsed[key]])
ListFromParsed(parsed, key) ==
    With(Subscript(parsed, Key(key)), LAMBDA arr :
        IF arr.exc # "none" THEN Files(<<>>, arr.exc)
        ELSE With(AttachmentsFromParsed(arr.v), LAMBDA recs :
                IF recs.exc # "none" THEN Files(<<>>, recs.exc)
                ELSE With(recs.v, LAMBDA l : FileAttachmentList(l))))

\* Manifest.__fill_from_parsed
fill_from_parsed(self, parsed, heap) ==
    With(Subscript(parsed, Key("status")), LAMBDA status :
    With(Subscript(parsed, Key("authoredOn")), LAMBDA authoredOn :
    With(try_nested_key(parsed, <<Key("for"), Key("reference")>>, PyStr(EmptyStr)),
         LAMBDA zipfile :
    With(try_nested_key(parsed, <<Key("focus"), Key("reference")>>, PyStr(EmptyStr)),
         LAMBDA patientID :
    With(try_nested_key(parsed, <<Key("encounter"), Key("reference")>>, PyStr(EmptyStr)),
         LAMBDA encounter :
    With(try_nested_key(parsed,
            <<Key("requestedPerformer"), Idx(0), Key("reference"), Key("reference")>>,
            PyStr(EmptyStr)),
         LAMBDA performer :
        IF status.exc # "none" THEN Made(status.exc, self, heap)
        ELSE IF authoredOn.exc # "none" THEN Made(authoredOn.exc, self, heap)
        ELSE IF zipfile.exc # "none" THEN Made(zipfile.exc, self, heap)
        ELSE IF patientID.exc # "none" THEN Made(patientID.exc, self, heap)
        ELSE IF encounter.exc # "none" THEN Made(encounter.exc, self, heap)
        ELSE IF performer.exc # "none" THEN Made(performer.exc, self, heap)
        ELSE With(ListFromParsed(parsed, "input"), LAMBDA inputFiles :
            IF inputFiles.exc # "none" THEN Made(inputFiles.exc, self, heap)
            ELSE With(Alloc(heap, inputFiles.files), LAMBDA heap1 :
                 With([self EXCEPT !.status = status.v, !.authoredOn = authoredOn.v,
                                   !.zipfile = zipfile.v, !.patientID = patientID.v,
                                   !.encounter = encounter.v, !.performer = performer.v,
                                   !.inputFiles = NewId(heap)],
                      LAMBDA self1 :
                    IF ~IsStr(status.v, COMPLETED) THEN Made("none", self1, heap1)
                    ELSE With(ListFromParsed(parsed, "output"), LAMBDA outputFiles :
                            IF outputFiles.exc # "none"
                            THEN Made(outputFiles.exc, self, heap)
                            ELSE Made("none", [self1 EXCEPT !.outputFiles = NewId(heap1)],
                                      Alloc(heap1, outputFiles.files))))))))))))

\* Manifest.from_json, Manifest.from_file: json.loads / json.load give the
\* parsed value; the instance is lost when filling it raises.
from_json(parsed, t, heap) == fill_from_parsed(NewInstance(t), parsed, heap)

\* Manifest.new
new(patientID, encounter, performer, files, t, heap) ==
    With([NewInstance(t) EXCEPT !.patientID = patientID,
                                !.encounter = encounter,
                                !.performer = performer], LAMBDA self :
    With(FileAttachmentList(files), LAMBDA l :
        IF l.exc # "none" THEN Made(l.exc, self, heap)
        ELSE Made("none", [self EXCEPT !.inputFiles = NewId(heap)], Alloc(heap, l.files))))

\* mark_done, were it to stamp authoredOn as well.
mark_done_restamps(self, out_files, t, heap) ==
    With([self EXCEPT !.status = PyStr(COMPLETED),
                      !.authoredOn = PyStr(HL7_timestamp(t)),
                      !.lastModified = PyStr(HL7_timestamp(t))], LAMBDA self1 :
    With(FileAttachmentList(out_files), LAMBDA l :
        IF l.exc # "none" THEN Made(l.exc, self1, heap)
        ELSE Made("none", [self1 EXCEPT !.outputFiles = NewId(heap)], Alloc(heap, l.files))))

\* Manifest.mark_done: status and lastModified are set before the list is built.
mark_done(self, out_files, t, heap) ==
    With([self EXCEPT !.status = PyStr(COMPLETED),
                      !.lastModified = PyStr(HL7_timestamp(t))], LAMBDA self1 :
    With(FileAttachmentList(out_files), LAMBDA l :
        IF l.exc # "none" THEN Made(l.exc, self1, heap)
        ELSE Made("none", [self1 EXCEPT !.outputFiles = NewId(heap)], Alloc(heap, l.files))))

\* str(v) inside an f-string, for the values the model's manifests hold.
Format(v) ==
    CASE v.t = "str" -> v.s
      [] v.t = "int" -> Decimal(v.n)
      [] v.t = "none" -> <<"N", "o", "n", "e">>

\* Manifest.__div_text__
div_text(self) ==
    DivOpen \o (IF IsStr(self.status, COMPLETED) THEN OUTPUT ELSE INPUT)
        \o TaskFor \o Format(self.patientID) \o Created \o Format(self.authoredOn)
        \o DivClose

NoKeys == [k \in {} |-> PyNone]

\* Manifest.__HL7_dict__; Manifest.json is its json.dumps, which json.loads
\* turns back into the same value.
HL7_dict(self, heap) ==
    PyDict(("resourceType" :> PyStr(TASK))
        @@ ("text" :> PyDict(("status" :> PyStr(GENERATED))
                          @@ ("div" :> PyStr(div_text(self)))))
        @@ ("status" :> self.status)
        @@ ("intent" :> PyStr(ORDER))
        @@ ("authoredOn" :> self.authoredOn)
        @@ ("focus" :> PyDict("reference" :> self.patientID))
        @@ ("encounter" :> PyDict("reference" :> self.encounter))
        @@ ("requestedPerformer" :>
                PyList(<<PyDict("reference" :> PyDict("reference" :> self.performer))>>))
        @@ ("for" :> PyDict("reference" :> self.zipfile))
        @@ (IF Len(heap[self.inputFiles]) > 0
            THEN "input" :> HL7_table(heap[self.inputFiles]) ELSE NoKeys)
        @@ (IF Len(heap[self.outputFiles]) > 0
            THEN "output" :> HL7_table(heap[self.outputFiles]) ELSE NoKeys)
        @@ (IF Len(self.lastModified.s) > 0
            THEN "lastModified" :> self.lastModified ELSE NoKeys))

\* Manifest.make_archive_name
make_archive_name(self, filetype, t) ==
    With(IF IsStr(self.status, COMPLETED) THEN StageRES ELSE StageNEW, LAMBDA output :
    With(<<PyStr(output), self.patientID, self.encounter, self.performer,
           PyStr(StrftimeEpoch(t)), filetype>>, LAMBDA parts :
        IF \E i \in DOMAIN parts : parts[i].t # "str" THEN Raise("AttributeError")
        ELSE Ret(PyStr(Join(<<".">>,
                    [i \in DOMAIN parts |-> clean_for_filename(parts[i].s)])))))

----------------------------------------------------------------------------
(* Files and archives *)

DataFile == [kind |-> "data"]
JsonFile(doc) == [kind |-> "json", doc |-> doc]
ZipFile(entries) == [kind |-> "zip", entries |-> entries]
Entry(name, content) == [name |-> name, content |-> content]

\* os.path.isfile
isfile(f, disk) == f.t = "str" /\ f.s \in DOMAIN disk

\* The result of package_manifest: what it raised and returned, the names it
\* printed as missing, the manifest and the disk afterwards.
Packaged(exc, ret, missing, man, disk) ==
    [exc |-> exc, ret |-> ret, missing |-> missing, man |-> man, disk |-> disk]

\* package_manifest, were zipfile set before the files are looked for.
package_manifest_names_first(man, t, heap, disk) ==
    With(make_archive_name(man, PyStr(ZIP), t), LAMBDA filename :
    With(IF IsStr(man.status, COMPLETED)
         THEN FileNames(heap[man.outputFiles])
         ELSE FileNames(heap[man.inputFiles]), LAMBDA files :
    With(SelectSeq(files, LAMBDA f : ~isfile(f, disk)), LAMBDA missing :
        IF filename.exc # "none" THEN Packaged(filename.exc, PyNone, <<>>, man, disk)
        ELSE With([man EXCEPT !.zipfile = filename.v], LAMBDA man1 :
            IF Len(missing) > 0 THEN Packaged("none", PyNone, missing, man1, disk)
            ELSE With(<<Entry(ManifestJson, JsonFile(HL7_dict(man1, heap)))>>
                        \o [i \in 1..Len(files) |-> Entry(files[i].s, disk[files[i].s])],
                      LAMBDA entries :
                    Packaged("none", filename.v, <<>>, man1,
                             (filename.v.s :> ZipFile(entries)) @@ disk))))))

\* package_manifest, were the manifest encoded before zipfile is set.
package_manifest_encodes_first(man, t, heap, disk) ==
    With(make_archive_name(man, PyStr(ZIP), t), LAMBDA filename :
    With(IF IsStr(man.status, COMPLETED)
         THEN FileNames(heap[man.outputFiles])
         ELSE FileNames(heap[man.inputFiles]), LAMBDA files :
    With(SelectSeq(files, LAMBDA f : ~isfile(f, disk)), LAMBDA missing :
        IF filename.exc # "none" THEN Packaged(filename.exc, PyNone, <<>>, man, disk)
        ELSE With([man EXCEPT !.zipfile = filename.v], LAMBDA man1 :
            IF Len(missing) > 0 THEN Packaged("none", PyNone, missing, man, disk)
            ELSE With(<<Entry(ManifestJson, JsonFile(HL7_dict(man, heap)))>>
                        \o [i \in 1..Len(files) |-> Entry(files[i].s, disk[files[i].s])],
                      LAMBDA entries :
                    Packaged("none", filename.v, <<>>, man1,
                             (filename.v.s :> ZipFile(entries)) @@ disk))))))

\* package_manifest
package_manifest(man, t, heap, disk) ==
    With(make_archive_name(man, PyStr(ZIP), t), LAMBDA filename :
    With(IF IsStr(man.status, COMPLETED)
         THEN FileNames(heap[man.outputFiles])
         ELSE FileNames(heap[man.inputFiles]), LAMBDA files :
    With(SelectSeq(files, LAMBDA f : ~isfile(f, disk)), LAMBDA missing :
        IF filename.exc # "none" THEN Packaged(filename.exc, PyNone, <<>>, man, disk)
        ELSE With([man EXCEPT !.zipfile = filename.v], LAMBDA man1 :
            IF Len(missing) > 0 THEN Packaged("none", PyNone, missing, man, disk)
            ELSE With(<<Entry(ManifestJson, JsonFile(HL7_dict(man1, heap)))>>
                        \o [i \in 1..Len(files) |-> Entry(files[i].s, disk[files[i].s])],
                      LAMBDA entries :
                    Packaged("none", filename.v, <<>>, man1,
                             (filename.v.s :> ZipFile(entries)) @@ disk))))))

----------------------------------------------------------------------------
(* The calls a program makes on the module *)

\* What the last call was and how it ended.
Outcome(op, m, exc, ret, missing, arg) ==
    [op |-> op, m |-> m, exc |-> exc, ret |-> ret, missing |-> missing, arg |-> arg]

NoCall == Outcome("none", 0, "none", PyNone, <<>>, PyNone)

\* m = Manifest.new(patientID, encounter, performer, files)
New(patientID, encounter, performer, files) ==
    \E r \in {new(patientID, encounter, performer, files, now, lists)} :
        /\ manifests' = IF r.exc = "none" THEN Append(manifests, r.self) ELSE manifests
        /\ lists' = IF r.exc = "none" THEN r.heap ELSE lists
        /\ out' = Outcome("new", Len(manifests'), r.exc, PyNone, <<>>, files)
        /\ calls' = calls + 1
        /\ UNCHANGED <<fs, now, cli>>

\* m = Manifest.from_json(text), text parsing to the value parsed
FromParsed(parsed, src) ==
    \E doc \in {parsed} : \E r \in {from_json(doc, now, lists)} :
        /\ manifests' = IF r.exc = "none" THEN Append(manifests, r.self) ELSE manifests
        /\ lists' = IF r.exc = "none" THEN r.heap ELSE lists
        /\ out' = Outcome("from_json", Len(manifests'), r.exc, PyNone, <<>>,
                          [parsed |-> doc, src |-> src])
        /\ calls' = calls + 1
        /\ UNCHANGED <<fs, now, cli>>

\* m2 = Manifest.from_json(manifests[i].json)
FromJson(i) == FromParsed(HL7_dict(manifests[i], lists), i)

\* manifests[i].mark_done(out_files)
MarkDone(i, out_files) ==
    \E r \in {mark_done(manifests[i], out_files, now, lists)} :
        /\ manifests' = [manifests EXCEPT ![i] = r.self]
        /\ lists' = Collect(r.heap, manifests')
        /\ out' = Outcome("mark_done", i, r.exc, PyNone, <<>>, out_files)
        /\ calls' = calls + 1
        /\ UNCHANGED <<fs, now, cli>>

\* package_manifest(manifests[i])
Package(i) ==
    \E r \in {package_manifest(manifests[i], now, lists, fs)} :
        /\ manifests' = [manifests EXCEPT ![i] = r.man]
        /\ fs' = r.disk
        /\ out' = Outcome("package_manifest", i, r.exc, r.ret, r.missing, PyNone)
        /\ calls' = calls + 1
        /\ UNCHANGED <<lists, now, cli>>

\* manifests[i].inputFiles.insert(f) or manifests[i].outputFiles.insert(f)
Insert(i, field, f) ==
    \E id \in {IF field = "inputFiles" THEN manifests[i].inputFiles
                                        ELSE manifests[i].outputFiles} :
    \E r \in {insert(lists[id], f)} :
        /\ lists' = [lists EXCEPT ![id] = r.files]
        /\ out' = Outcome("insert", i, r.exc, PyNone, <<>>, [field |-> field, f |-> f])
        /\ calls' = calls + 1
        /\ UNCHANGED <<manifests, fs, now, cli>>

\* manifests[i].make_archive_name(filetype)
MakeArchiveName(i, filetype) ==
    \E r \in {make_archive_name(manifests[i], filetype, now)} :
        /\ out' = Outcome("make_archive_name", i, r.exc,
                          IF r.exc = "none" THEN r.v ELSE PyNone, <<>>, filetype)
        /\ calls' = calls + 1
        /\ UNCHANGED <<manifests, lists, fs, now, cli>>

\* A second passes.
Tick ==
    /\ now < MaxClock
    /\ now' = now + 1
    /\ UNCHANGED <<manifests, lists, fs, calls, out, cli>>

----------------------------------------------------------------------------
(* The life of manifests: construction, completion, packaging, re-reading *)

Str(c) == PyStr(<<c>>)

Attachment(name) ==
    PyDict(("Filename" :> Str(name)) @@ ("Description" :> Str("D")) @@ ("MIME" :> Str("t")))

\* The file lists the calls are given.
FileLists == {PyList(<<>>), PyList(<<Attachment("a"), Attachment("b")>>)}

OutLists == {PyList(<<>>), PyList(<<Attachment("b")>>)}

\* The working directories a run starts in.
Disks == {[n \in S |-> DataFile] : S \in {{}, {<<"a">>}, {<<"a">>, <<"b">>}}}

NoCli == [pc |-> "none"]

\* The heap once the class body has run: the two class-level lists, empty.
InitLists == (ClassInputFiles :> <<>>) @@ (ClassOutputFiles :> <<>>)

Init ==
    /\ manifests = <<>>
    /\ lists = InitLists
    /\ fs \in Disks
    /\ now = 0
    /\ calls = 0
    /\ out = NoCall
    /\ cli = NoCli

\* The program may make one more call, and one that constructs a manifest.
MayCall == calls < MaxCalls
MayConstruct == MayCall /\ Len(manifests) < MaxManifests

Next ==
    \/ MayConstruct /\ \E files \in FileLists : New(Str("P"), Str("E"), Str("C"), files)
    \/ MayConstruct /\ \E i \in DOMAIN manifests : FromJson(i)
    \/ MayCall /\ \E i \in DOMAIN manifests : \E files \in OutLists : MarkDone(i, files)
    \/ MayCall /\ \E i \in DOMAIN manifests : Package(i)
    \/ Tick

Spec == Init /\ [][Next]_vars

----------------------------------------------------------------------------
(* Properties of the life of manifests *)

\* The fields of a manifest with its two lists by content.
Fields(m, heap) ==
    [status |-> m.status, authoredOn |-> m.authoredOn, lastModified |-> m.lastModified,
     patientID |-> m.patientID, encounter |-> m.encounter, performer |-> m.performer,
     inputFiles |-> heap[m.inputFiles], outputFiles |-> heap[m.outputFiles]]

\* The step is a call, and the call is op on manifest i.
Called(op, i) == calls' = calls + 1 /\ out'.op = op /\ out'.m = i

\* The filenames package_manifest is to package for manifest m.
Selected(m, heap) ==
    LET l == IF m.status = PyStr(COMPLETED) THEN heap[m.outputFiles] ELSE heap[m.inputFiles]
    IN  [k \in 1..Len(l) |-> l[k].Filename.s]

RECURSIVE Absent(_, _)
Absent(names, disk) ==
    IF names = <<>> THEN <<>>
    ELSE (IF Head(names) \in DOMAIN disk THEN <<>> ELSE <<PyStr(Head(names))>>)
            \o Absent(Tail(names), disk)

\* C1: a requested manifest read back from its own HL7 encoding is read without
\* failure and equals the original in status, authoredOn, lastModified,
\* patientID, encounter, performer, inputFiles and outputFiles.
C1_RoundTripRequested ==
    (out.op = "from_json" /\ out.arg.src # 0
        /\ IsStr(manifests[out.arg.src].status, REQUESTED))
    => /\ out.exc = "none"
       /\ Fields(manifests[out.m], lists) = Fields(manifests[out.arg.src], lists)

\* C2: lastModified is non-empty exactly when status is completed, outputFiles is
\* empty while status is requested; the encoding of a completed manifest has a
\* non-empty output array and a lastModified key, that of a requested one neither.
C2_StatusShape ==
    \A i \in DOMAIN manifests :
        LET m == manifests[i]
            enc == HL7_dict(m, lists).m
        IN  /\ (Len(m.lastModified.s) > 0) <=> IsStr(m.status, COMPLETED)
            /\ IsStr(m.status, REQUESTED) => lists[m.outputFiles] = <<>>
            /\ IsStr(m.status, COMPLETED) =>
                    /\ "output" \in DOMAIN enc /\ Len(enc["output"].a) > 0
                    /\ "lastModified" \in DOMAIN enc
            /\ IsStr(m.status, REQUESTED) =>
                    /\ "output" \notin DOMAIN enc
                    /\ "lastModified" \notin DOMAIN enc

\* C3: package_manifest on a manifest one of whose selected files is not on disk
\* writes nothing, returns nothing, reports exactly the absent names in list
\* order, and leaves the manifest as it was.
C3_MissingFileNoOp ==
    [][\A i \in DOMAIN manifests :
        (Called("package_manifest", i)
            /\ Absent(Selected(manifests[i], lists), fs) # <<>>)
        => /\ fs' = fs
           /\ out'.exc = "none" /\ out'.ret = PyNone
           /\ out'.missing = Absent(Selected(manifests[i], lists), fs)
           /\ manifests'[i] = manifests[i]
           /\ lists' = lists]_vars

\* A manifest listing a and b was packaged with a on disk and b not.
C3_Witness ==
    /\ out.op = "package_manifest"
    /\ out.missing = <<Str("b")>>
    /\ Selected(manifests[out.m], lists) = << <<"a">>, <<"b">> >>

\* C4: package_manifest on a manifest all of whose selected files are on disk
\* returns the archive name, has set zipfile to it and nothing else, and has
\* written at that name MANIFEST.json, whose for.reference is that name,
\* followed by the selected files in list order.
C4_PackagedArchive ==
    [][\A i \in DOMAIN manifests :
        (Called("package_manifest", i)
            /\ Absent(Selected(manifests[i], lists), fs) = <<>>)
        => /\ out'.exc = "none" /\ out'.missing = <<>>
           /\ out'.ret = make_archive_name(manifests[i], PyStr(ZIP), now).v
           /\ manifests'[i] = [manifests[i] EXCEPT !.zipfile = out'.ret]
           /\ lists' = lists
           /\ DOMAIN fs' = DOMAIN fs \cup {out'.ret.s}
           /\ \A n \in DOMAIN fs \ {out'.ret.s} : fs'[n] = fs[n]
           /\ LET e == fs'[out'.ret.s].entries
              IN  /\ e[1].name = ManifestJson
                  /\ e[1].content.doc = HL7_dict(manifests'[i], lists')
                  /\ e[1].content.doc.m["for"].m["reference"] = out'.ret
                  /\ [k \in 1..(Len(e) - 1) |-> e[k + 1].name]
                        = Selected(manifests[i], lists)]_vars

\* A completed manifest with inputs a, b and output b has been packaged: the
\* archive holds the manifest and b.
C4_Witness ==
    /\ out.op = "package_manifest"
    /\ out.ret.t = "str"
    /\ IsStr(manifests[out.m].status, COMPLETED)
    /\ Len(lists[manifests[out.m].inputFiles]) = 2
    /\ Len(fs[out.ret.s].entries) = 2
    /\ fs[out.ret.s].entries[1].name = ManifestJson
    /\ fs[out.ret.s].entries[2].name = <<"b">>
    /\ manifests[out.m].zipfile = out.ret

\* C5: mark_done on a requested manifest sets status to completed, lastModified
\* to the timestamp of now and outputFiles to the list of the given files, and
\* leaves the other fields; no call takes a manifest out of completed, and none
\* changes authoredOn.
C5_MarkDoneOneWay ==
    [][\A i \in DOMAIN manifests :
        /\ (Called("mark_done", i) /\ IsStr(manifests[i].status, REQUESTED))
            => /\ out'.exc = "none"
               /\ Fields(manifests'[i], lists')
                    = [Fields(manifests[i], lists) EXCEPT
                          !.status = PyStr(COMPLETED),
                          !.lastModified = PyStr(HL7_timestamp(now)),
                          !.outputFiles = FileAttachmentList(out'.arg).files]
               /\ Len(manifests'[i].lastModified.s) > 0
               /\ manifests'[i].zipfile = manifests[i].zipfile
        /\ IsStr(manifests[i].status, COMPLETED) => IsStr(manifests'[i].status, COMPLETED)
        /\ manifests'[i].authoredOn = manifests[i].authoredOn]_vars

\* A manifest made at one time was completed at a later time with a file, and
\* then packaged.
C5_Witness ==
    /\ out.op = "package_manifest"
    /\ out.ret.t = "str"
    /\ IsStr(manifests[out.m].status, COMPLETED)
    /\ lists[manifests[out.m].outputFiles] # <<>>
    /\ manifests[out.m].lastModified # manifests[out.m].authoredOn

----------------------------------------------------------------------------
(* Programs that also insert into the lists of their manifests *)

\* An attachment dict with a key the list does not keep.
AttachmentWithSize(name) ==
    PyDict(("Filename" :> Str(name)) @@ ("Description" :> Str("D")) @@ ("MIME" :> Str("t"))
        @@ ("Size" :> PyInt(7)))

\* What insert is given: one dict, and nestings of lists of dicts, one of them
\* with a dict that lacks keys.
Nests ==
    {AttachmentWithSize("c"),
     PyList(<<>>),
     PyList(<<Attachment("c"), AttachmentWithSize("d")>>),
     PyList(<<PyList(<<Attachment("c")>>),
              PyList(<<PyList(<<>>), PyList(<<AttachmentWithSize("d")>>)>>)>>),
     PyList(<<Attachment("c"), PyDict("Filename" :> Str("d"))>>)}

NextInsert ==
    \/ MayConstruct /\ \E files \in FileLists : New(Str("P"), Str("E"), Str("C"), files)
    \/ MayConstruct /\ \E i \in DOMAIN manifests : FromJson(i)
    \/ MayCall /\ \E i \in DOMAIN manifests : \E files \in OutLists : MarkDone(i, files)
    \/ MayCall /\ \E i \in DOMAIN manifests : \E field \in {"inputFiles", "outputFiles"} :
            \E f \in Nests : Insert(i, field, f)

SpecInsert == Init /\ [][NextInsert]_vars

\* The dicts of a nesting, depth first and left to right.
RECURSIVE Leaves(_)
Leaves(f) ==
    IF f.t = "dict" THEN <<f>>
    ELSE IF f.a = <<>> THEN <<>>
    ELSE Leaves(Head(f.a)) \o Leaves(PyList(Tail(f.a)))

HasAttachmentKeys(f) == AttachmentKeys \subseteq DOMAIN f.m

\* The record of the three fields of a dict.
ThreeFields(d) == [n \in AttachmentKeys |-> d.m[n]]

\* Inserting the dicts ds one call after the other.
RECURSIVE OneAtATime(_, _)
OneAtATime(files, ds) ==
    IF ds = <<>> THEN files ELSE OneAtATime(insert(files, Head(ds)).files, Tail(ds))

\* The list the last call inserted into.
InsertedInto(ms) ==
    IF out'.arg.field = "inputFiles" THEN ms[out'.m].inputFiles ELSE ms[out'.m].outputFiles

\* C8: insert of a nesting of attachment dicts appends, depth first and left to
\* right, one record of exactly Filename, Description and MIME for each dict,
\* which is also the list that inserting the dicts one at a time gives.
C8_InsertFlattens ==
    [][\A i \in DOMAIN manifests :
        (Called("insert", i) /\ \A k \in DOMAIN Leaves(out'.arg.f) :
                                    HasAttachmentKeys(Leaves(out'.arg.f)[k]))
        => LET ds == Leaves(out'.arg.f)
               before == lists[InsertedInto(manifests)]
               after == lists'[InsertedInto(manifests)]
           IN  /\ out'.exc = "none"
               /\ after = before \o [k \in DOMAIN ds |-> ThreeFields(ds[k])]
               /\ after = OneAtATime(before, ds)
               /\ \A k \in DOMAIN after : DOMAIN after[k] = AttachmentKeys]_vars

\* Two dicts were inserted as a nesting into a list that already held files.
C8_Witness ==
    /\ out.op = "insert"
    /\ out.exc = "none"
    /\ out.arg.f.t = "list"
    /\ Len(out.arg.f.a) = 2
    /\ out.arg.f.a[1].t = "list"
    /\ Len(lists[manifests[out.m].inputFiles]) = 4
    /\ out.arg.field = "inputFiles"

\* C10: inserting into a list of one manifest changes no list of another
\* manifest, and a manifest constructed afterwards starts with the lists its
\* constructor gives it.
C10_NoSharedLists ==
    [][/\ \A i, j \in DOMAIN manifests :
            (i # j /\ Called("insert", i))
            => /\ lists'[manifests'[j].inputFiles] = lists[manifests[j].inputFiles]
               /\ lists'[manifests'[j].outputFiles] = lists[manifests[j].outputFiles]
       /\ (Called("new", Len(manifests) + 1) /\ out'.exc = "none")
            => lists'[manifests'[out'.m].outputFiles] = <<>>]_vars

----------------------------------------------------------------------------
(* Reading Task documents whose reference parts have all kinds of shapes *)

\* The shapes of "for", "focus" and "encounter": the key absent (no entry), a
\* string, null, a number, an object without "reference", an array, and the
\* well-formed object.
RefShapes ==
    {NoKeys} \cup
    {("v" :> x) : x \in {Str("s"), PyNone, PyInt(5), PyDict(NoKeys), PyList(<<>>),
                         PyDict("reference" :> Str("r"))}}

\* The shapes of "requestedPerformer".
PerformerShapes ==
    {NoKeys} \cup
    {("v" :> x) : x \in
        {PyList(<<>>), PyDict(NoKeys), Str("s"), PyNone,
         PyList(<<Str("s")>>), PyList(<<PyDict(NoKeys)>>),
         PyList(<<PyDict("reference" :> Str("s"))>>),
         PyList(<<PyDict("reference" :> PyDict(NoKeys))>>),
         PyList(<<PyDict("reference" :> PyDict("reference" :> Str("r")))>>)}}

\* shape, under the key name when it is not the absent one
Keyed(name, shape) == IF "v" \in DOMAIN shape THEN name :> shape["v"] ELSE NoKeys

\* A Task with status, authoredOn and a well-formed input array.
TaskDoc(status, for, focus, encounter, performer) ==
    PyDict(("resourceType" :> PyStr(TASK))
        @@ ("status" :> status)
        @@ ("authoredOn" :> PyStr(HL7_timestamp(0)))
        @@ ("input" :> HL7_table(FileAttachmentList(PyList(<<Attachment("a")>>)).files))
        @@ Keyed("for", for) @@ Keyed("focus", focus) @@ Keyed("encounter", encounter)
        @@ Keyed("requestedPerformer", performer))

\* The program's first call.
First == calls = 0

NextParse ==
    \E for \in RefShapes : \E focus \in RefShapes : \E encounter \in RefShapes :
        \E performer \in PerformerShapes :
            First /\ FromParsed(TaskDoc(PyStr(REQUESTED), for, focus, encounter, performer), 0)

SpecParse == Init /\ [][NextParse]_vars

\* Whether the path keys leads through d: every name is a key of an object,
\* every index an element of an array.
RECURSIVE Leads(_, _)
Leads(d, keys) ==
    \/ keys = <<>>
    \/ /\ Head(keys).kind = "key"
       /\ d.t = "dict"
       /\ Head(keys).name \in DOMAIN d.m
       /\ Leads(d.m[Head(keys).name], Tail(keys))
    \/ /\ Head(keys).kind = "idx"
       /\ d.t = "list"
       /\ Head(keys).i + 1 \in DOMAIN d.a
       /\ Leads(d.a[Head(keys).i + 1], Tail(keys))

ReferencePath == <<Key("reference")>>
PerformerPath == <<Idx(0), Key("reference"), Key("reference")>>

\* C6: reading a Task that has status, authoredOn and a well-formed input
\* never fails, and each of zipfile, patientID, encounter, performer is the
\* empty string when its path is absent or of the wrong shape.
C6_ReferencesFailSoft ==
    (out.op = "from_json" /\ out.arg.src = 0)
    => /\ out.exc = "none"
       /\ LET doc == out.arg.parsed
              m == manifests[out.m]
              broken(name, path, field) ==
                  ~Leads(doc, <<Key(name)>> \o path) => field = PyStr(EmptyStr)
          IN  /\ broken("for", ReferencePath, m.zipfile)
              /\ broken("focus", ReferencePath, m.patientID)
              /\ broken("encounter", ReferencePath, m.encounter)
              /\ broken("requestedPerformer", PerformerPath, m.performer)

----------------------------------------------------------------------------
(* Archive names of manifests with all kinds of strings *)

InProgress == <<"i", "n", "-", "p", "r", "o", "g", "r", "e", "s", "s">>

\* patientID, encounter, performer: empty, plain, with a dot, outside ASCII.
NameStrings == {EmptyStr, <<"P", "-", "1">>, <<"a", ".", "b">>, <<"é", "?">>}

\* The file types asked for; "zip" is the default.
FileTypes == {ZIP, <<"7", "z">>, <<"t", "a", "r", ".", "g", "z">>, <<"ø">>}

RefTo(s) == "v" :> PyDict("reference" :> PyStr(s))

NextName ==
    \/ \E p \in NameStrings : \E e \in NameStrings : \E c \in NameStrings :
            First /\ New(PyStr(p), PyStr(e), PyStr(c), PyList(<<>>))
    \/ \E status \in {REQUESTED, InProgress} : \E p \in NameStrings :
            First /\ FromParsed(TaskDoc(PyStr(status), NoKeys, RefTo(p), RefTo(p),
                        "v" :> PyList(<<PyDict("reference" :> PyDict(RefTo(p)))>>)), 0)
    \/ MayCall /\ \E i \in DOMAIN manifests : MarkDone(i, PyList(<<>>))
    \/ MayCall /\ \E i \in DOMAIN manifests : \E filetype \in FileTypes :
            MakeArchiveName(i, PyStr(filetype))
    \/ Tick

SpecName == Init /\ [][NextName]_vars

\* s.split(sep), sep one character: the pieces between the separators.
RECURSIVE Split(_, _)
Split(s, sep) ==
    IF \A k \in DOMAIN s : s[k] # sep THEN <<s>>
    ELSE LET k == CHOOSE k \in DOMAIN s : s[k] = sep /\ \A j \in 1..(k - 1) : s[j] # sep
         IN  <<SubSeq(s, 1, k - 1)>> \o Split(SubSeq(s, k + 1, Len(s)), sep)

\* s with every character outside [A-Za-z0-9_()-] replaced by an underscore.
Underscored(s) == [k \in DOMAIN s |-> IF s[k] \in FilenameChars THEN s[k] ELSE "_"]

\* C7 as claimed: the archive name has exactly 6 dot-separated components, the
\* first NEW for a requested manifest and RES for any other, the last equal to
\* the file type asked for.
C7_ArchiveNameAsClaimed ==
    out.op = "make_archive_name"
    => /\ out.exc = "none"
       /\ LET parts == Split(out.ret.s, ".")
          IN  /\ Len(parts) = 6
              /\ parts[1] = IF IsStr(manifests[out.m].status, REQUESTED)
                            THEN StageNEW ELSE StageRES
              /\ parts[6] = out.arg.s

\* C7 as the code has it: the archive name has exactly 6 dot-separated
\* components, the first RES for a completed manifest and NEW for any other,
\* the last the file type asked for with every character outside
\* [A-Za-z0-9_()-] replaced by an underscore.
C7_ArchiveName ==
    out.op = "make_archive_name"
    => /\ out.exc = "none"
       /\ LET parts == Split(out.ret.s, ".")
          IN  /\ Len(parts) = 6
              /\ parts[1] = IF IsStr(manifests[out.m].status, COMPLETED)
                            THEN StageRES ELSE StageNEW
              /\ parts[6] = Underscored(out.arg.s)
              /\ (\A k \in DOMAIN out.arg.s : out.arg.s[k] \in FilenameChars)
                    => parts[6] = out.arg.s

\* The name of a manifest whose patientID has a dot and whose encounter has
\* characters outside ASCII was made with the file type tar.gz.
C7_Witness ==
    /\ out.op = "make_archive_name"
    /\ out.arg.s = <<"t", "a", "r", ".", "g", "z">>
    /\ manifests[out.m].patientID.s = <<"a", ".", "b">>
    /\ manifests[out.m].encounter.s = <<"é", "?">>
    /\ IsStr(manifests[out.m].status, COMPLETED)

----------------------------------------------------------------------------
(* The command line tool *)

\* The characters of code points 32 to 91 and of 97 to 122, in order.
AsciiTo91 ==
    <<" ", "!", "\"", "#", "$", "%", "&", "'", "(", ")", "*", "+", ",", "-", ".", "/",
      "0", "1", "2", "3", "4", "5", "6", "7", "8", "9", ":", ";", "<", "=", ">", "?",
      "@", "A", "B", "C", "D", "E", "F", "G", "H", "I", "J", "K", "L", "M", "N", "O",
      "P", "Q", "R", "S", "T", "U", "V", "W", "X", "Y", "Z", "[">>

AsciiLower ==
    <<"a", "b", "c", "d", "e", "f", "g", "h", "i", "j", "k", "l", "m", "n", "o", "p",
      "q", "r", "s", "t", "u", "v", "w", "x", "y", "z">>

\* ord(c), for the characters of the model's strings
CodePoint(c) ==
    IF c = "é" THEN 233
    ELSE IF c = "ø" THEN 248
    ELSE IF \E k \in DOMAIN AsciiTo91 : AsciiTo91[k] = c
    THEN 31 + CHOOSE k \in DOMAIN AsciiTo91 : AsciiTo91[k] = c
    ELSE 96 + CHOOSE k \in DOMAIN AsciiLower : AsciiLower[k] = c

\* chr(n), for 97 <= n <= 122
Chr(n) == AsciiLower[n - 96]

\* str.lower
LowerChar(c) == IF CodePoint(c) \in 65..90 THEN Chr(CodePoint(c) + 32) ELSE c
Lower(s) == [k \in DOMAIN s |-> LowerChar(s[k])]

\* a < b on strings
RECURSIVE StrLess(_, _)
StrLess(a, b) ==
    IF b = <<>> THEN FALSE
    ELSE IF a = <<>> THEN TRUE
    ELSE IF Head(a) # Head(b) THEN CodePoint(Head(a)) < CodePoint(Head(b))
    ELSE StrLess(Tail(a), Tail(b))

\* list.sort on strings
RECURSIVE Sorted(_)
Sorted(names) ==
    IF names = <<>> THEN <<>>
    ELSE LET k == CHOOSE k \in DOMAIN names :
                    \A j \in DOMAIN names : ~StrLess(names[j], names[k])
         IN  <<names[k]>> \o Sorted([j \in 1..(Len(names) - 1) |->
                                        IF j < k THEN names[j] ELSE names[j + 1]])

Verbs == {"printPerformer", "printInfo", "package", "extract"}

\* zf.open(name): a file object, not a string.
ZipExtFile(zip, name) == [t |-> "ZipExtFile", zip |-> zip, name |-> name]

\* The result of the loading part: what it raised, manifest_file, the manifest.
Loaded(exc, manifest_file, made) ==
    [exc |-> exc, manifest_file |-> manifest_file, made |-> made]

\* json.load of a file's content, then __fill_from_parsed
from_content(content, manifest_file, t, heap) ==
    IF content.kind # "json" THEN Loaded("JSONDecodeError", manifest_file, PyNone)
    ELSE With(from_json(content.doc, t, heap), LAMBDA made :
            Loaded(made.exc, manifest_file, made))

\* __main__, from args.file to the loaded manifest
Load(file, t, heap, disk) ==
    IF EndsWith(file, DotZip)
    THEN IF file \notin DOMAIN disk THEN Loaded("FileNotFoundError", PyStr(file), PyNone)
         ELSE IF disk[file].kind # "zip" THEN Loaded("BadZipFile", PyStr(file), PyNone)
         ELSE LET entries == disk[file].entries
                  namelist == [k \in DOMAIN entries |-> entries[k].name]
                  manifest_name == Sorted(SelectSeq(namelist,
                                        LAMBDA f : Lower(f) = Lower(ManifestJson)))
              IN  IF manifest_name = <<>> THEN Loaded("IndexError", PyStr(file), PyNone)
                  ELSE LET e == CHOOSE k \in DOMAIN entries :
                                    entries[k].name = manifest_name[1]
                       IN  from_content(entries[e].content,
                                        ZipExtFile(file, manifest_name[1]), t, heap)
    ELSE IF file \notin DOMAIN disk THEN Loaded("FileNotFoundError", PyStr(file), PyNone)
    ELSE from_content(disk[file], PyStr(file), t, heap)

\* An uncaught exception: the traceback, exit code 1.
Crash(exc) == [cli EXCEPT !.pc = "exit", !.said = "Traceback", !.exc = exc, !.exit = 1]

\* exit(code) after printing what
Exit(what, code) == [cli EXCEPT !.pc = "exit", !.said = what, !.exit = code]

\* Lines 381-391: find the manifest, in the archive or on disk, and read it.
CliLoad ==
    /\ cli.pc = "start"
    /\ \E r \in {Load(cli.file, now, lists, fs)} :
           IF r.exc # "none"
           THEN /\ cli' = Crash(r.exc)
                /\ UNCHANGED <<manifests, lists>>
           ELSE /\ cli' = [cli EXCEPT !.pc = "loaded", !.manifest_file = r.manifest_file]
                /\ manifests' = Append(manifests, r.made.self)
                /\ lists' = r.made.heap
    /\ UNCHANGED <<fs, now, calls, out>>

\* Lines 393-413: the verb.
CliVerb ==
    /\ cli.pc = "loaded"
    /\ LET manifest == manifests[Len(manifests)]
       IN  CASE cli.verb = "printPerformer" ->
                    /\ cli' = Exit("performer", 0)
                    /\ UNCHANGED <<manifests, fs, out>>
             [] cli.verb = "printInfo" ->
                    /\ cli' = Exit("info", 0)
                    /\ UNCHANGED <<manifests, fs, out>>
             [] cli.verb = "package" ->
                    IF cli.manifest_file.t # "str"
                    THEN /\ cli' = Crash("AttributeError")
                         /\ UNCHANGED <<manifests, fs, out>>
                    ELSE IF EndsWith(cli.manifest_file.s, DotZip)
                    THEN /\ cli' = Exit("refused", 0)
                         /\ UNCHANGED <<manifests, fs, out>>
                    ELSE \E r \in {package_manifest(manifest, now, lists, fs)} :
                             /\ manifests' = [manifests EXCEPT ![Len(manifests)] = r.man]
                             /\ fs' = r.disk
                             /\ out' = Outcome("package_manifest", Len(manifests), r.exc,
                                               r.ret, r.missing, PyNone)
                             /\ cli' = IF r.exc # "none" THEN Crash(r.exc)
                                       ELSE Exit("package", 0)
             [] cli.verb = "extract" ->
                    IF isfile(PyStr(ManifestJson), fs)
                    THEN /\ cli' = Exit("exists", 1)
                         /\ UNCHANGED <<manifests, fs, out>>
                    ELSE /\ fs' = (ManifestJson :> JsonFile(HL7_dict(manifest, lists))) @@ fs
                         /\ cli' = Exit("extract", 0)
                         /\ UNCHANGED <<manifests, out>>
    /\ UNCHANGED <<lists, now, calls>>

\* What earlier runs of the module have left in the working directory: a
\* requested manifest, a completed one, and the archive of the requested one.
Requested0 == new(Str("P"), Str("E"), Str("C"), PyList(<<Attachment("a")>>), 0, InitLists)
Completed0 == mark_done(Requested0.self, PyList(<<Attachment("b")>>), 0, Requested0.heap)
Packaged0 == package_manifest(Requested0.self, 0, Requested0.heap, (<<"a">> :> DataFile))
Archive0 == Packaged0.ret.s

LowerManifestJson == Lower(ManifestJson)

CliDisks ==
    {a @@ m @@ z :
        a \in {NoKeys, <<"a">> :> DataFile},
        m \in {NoKeys,
               ManifestJson :> JsonFile(HL7_dict(Requested0.self, Requested0.heap)),
               ManifestJson :> JsonFile(HL7_dict(Completed0.self, Completed0.heap))},
        z \in {NoKeys,
               Archive0 :> Packaged0.disk[Archive0],
               Archive0 :> ZipFile(<<Entry(<<"a">>, DataFile)>>),
               Archive0 :> ZipFile(<<Entry(LowerManifestJson,
                                           JsonFile(HL7_dict(Completed0.self, Completed0.heap))),
                                     Entry(ManifestJson,
                                           JsonFile(HL7_dict(Requested0.self, Requested0.heap))),
                                     Entry(<<"a">>, DataFile)>>)}}

InitCLI ==
    /\ manifests = <<>>
    /\ lists = InitLists
    /\ fs \in CliDisks
    /\ now = 0
    /\ calls = 0
    /\ out = NoCall
    /\ cli \in [pc : {"start"}, verb : Verbs, file : {ManifestJson, Archive0},
                manifest_file : {PyNone}, exit : {-1}, said : {"nothing"}, exc : {"none"}]

NextCLI == CliLoad \/ CliVerb

SpecCLI == InitCLI /\ [][NextCLI]_vars

\* C9: package on a manifest read from inside an archive ends refusing and
\* writes nothing; extract with MANIFEST.json in the working directory leaves
\* the file as it is and exits with code 1; every other run that ends without
\* an uncaught exception exits with code 0.
C9_RefusalsNeverWrite ==
    [][/\ (cli.pc = "loaded" /\ cli.verb = "package" /\ EndsWith(cli.file, DotZip))
            => (cli'.said = "refused" /\ fs' = fs)
       /\ (cli.pc = "loaded" /\ cli.verb = "extract" /\ ManifestJson \in DOMAIN fs)
            => (cli'.exit = 1 /\ fs' = fs)
       /\ (cli'.pc = "exit" /\ cli'.said \notin {"Traceback", "exists"})
            => cli'.exit = 0]_vars

====
